---- MODULE Spec2Model ----
(***************************************************************************)
(* Feature evaluation engine of molasses-go (package molasses): isActive,  *)
(* getUserPercentage, isUserInSegment and the constraint evaluators.       *)
(*                                                                         *)
(* Go strings whose bytes the code inspects (user ids, constraint values,  *)
(* string parameters) are sequences of byte values.  Strings that are only *)
(* compared for equality (segment types, operators, parameter names and    *)
(* parameter types) are TLA+ strings.  A float64 is a fixed-point number:  *)
(* the integer n stands for n / Scale.  An interface{} value is a record   *)
(* [kind, val] whose kind is the dynamic Go type.  A *User is a sequence   *)
(* of length 0 (nil) or 1.                                                 *)
(*                                                                         *)
(* The client (Init, IsActive, ExperimentStarted, ExperimentSuccess,       *)
(* IsInitiated, Stop, refresh, fetchFeatures, uploadEvent) is a second     *)
(* specification, SpecClient: the calling                                  *)
(* goroutine, the refresh goroutine and the upload goroutines take steps   *)
(* in any order, since the code takes no lock.  A map read and a map       *)
(* assignment each begin and end in separate steps; a read that overlaps   *)
(* an assignment yields the entry before it or the one written, or ends    *)
(* the process.                                                            *)
(***************************************************************************)
EXTENDS Integers, Sequences, FiniteSets, TLC

\* ------------------------------------------------------------------ bounds
\* number of decimal fraction digits a modelled float64 carries
FracDigits == 3
\* longest segment list of a feature drawn by Init
MaxSegments == 3
\* longest constraint list of a segment drawn by Init
MaxConstraints == 2

Scale == 10 ^ FracDigits

\* ------------------------------------------------------------ byte strings
ChComma == 44
ChPlus == 43
ChMinus == 45
ChDot == 46
Ch0 == 48
Ch9 == 57

IsDigit(c) == Ch0 <= c /\ c <= Ch9

RECURSIVE IndexFrom(_, _, _)
\* first position >= i of byte c in s, or 0
IndexFrom(s, c, i) ==
    IF i > Len(s) THEN 0
    ELSE IF s[i] = c THEN i
    ELSE IndexFrom(s, c, i + 1)

RECURSIVE Split(_, _)
\* strings.Split(s, sep) for a one-byte separator
Split(s, sep) ==
    LET p == IndexFrom(s, sep, 1) IN
    IF p = 0 THEN <<s>>
    ELSE <<SubSeq(s, 1, p - 1)>> \o Split(SubSeq(s, p + 1, Len(s)), sep)

\* strings.Contains(s, substr)
Contains(s, substr) ==
    \E i \in 0..(Len(s) - Len(substr)) : SubSeq(s, i + 1, i + Len(substr)) = substr

RECURSIVE DigitsValue(_, _)
\* value of the decimal digit string s, continuing from acc
DigitsValue(s, acc) ==
    IF s = <<>> THEN acc
    ELSE DigitsValue(Tail(s), acc * 10 + (Head(s) - Ch0))

AllDigits(s) == \A i \in 1..Len(s) : IsDigit(s[i])

RECURSIVE PadRight(_, _)
PadRight(s, n) == IF Len(s) >= n THEN SubSeq(s, 1, n) ELSE PadRight(s \o <<Ch0>>, n)

\* strconv.ParseFloat(s, 10) on plain decimal literals: [sign] digits [. digits].
\* Fraction digits beyond FracDigits are outside the precision of the model.
ParseFloat(s) ==
    LET neg   == s # <<>> /\ s[1] = ChMinus
        body  == IF s # <<>> /\ s[1] \in {ChPlus, ChMinus} THEN Tail(s) ELSE s
        p     == IndexFrom(body, ChDot, 1)
        ip    == IF p = 0 THEN body ELSE SubSeq(body, 1, p - 1)
        fp    == IF p = 0 THEN <<>> ELSE SubSeq(body, p + 1, Len(body))
        ok    == AllDigits(ip) /\ AllDigits(fp) /\ Len(ip) + Len(fp) > 0
        mag   == DigitsValue(ip, 0) * Scale + DigitsValue(PadRight(fp, FracDigits), 0)
    IN  IF ok THEN [v |-> IF neg THEN 0 - mag ELSE mag, err |-> FALSE]
        ELSE [v |-> 0, err |-> TRUE]

str_true == <<116, 114, 117, 101>>
str_false == <<102, 97, 108, 115, 101>>

\* strconv.ParseBool(s)
ParseBool(s) ==
    IF s \in { <<49>>, <<116>>, <<84>>, <<84, 82, 85, 69>>, str_true, <<84, 114, 117, 101>> }
        THEN [v |-> TRUE, err |-> FALSE]
    ELSE IF s \in { <<48>>, <<102>>, <<70>>, <<70, 65, 76, 83, 69>>, str_false, <<70, 97, 108, 115, 101>> }
        THEN [v |-> FALSE, err |-> FALSE]
    ELSE [v |-> FALSE, err |-> TRUE]

\* strconv.FormatBool(b)
FormatBool(b) == IF b THEN str_true ELSE str_false

RECURSIVE NatDigits(_)
\* decimal digits of the natural number n
NatDigits(n) == IF n < 10 THEN <<Ch0 + n>> ELSE NatDigits(n \div 10) \o <<Ch0 + (n % 10)>>

RECURSIVE StripZeros(_)
StripZeros(s) == IF s # <<>> /\ s[Len(s)] = Ch0 THEN StripZeros(SubSeq(s, 1, Len(s) - 1)) ELSE s

RECURSIVE PadLeft(_, _)
PadLeft(s, n) == IF Len(s) >= n THEN s ELSE PadLeft(<<Ch0>> \o s, n)

\* fmt.Sprintf("%v", v) of a float64 in the plain (non-exponent) range
FormatFloat(v) ==
    LET mag  == IF v < 0 THEN 0 - v ELSE v
        frac == StripZeros(PadLeft(NatDigits(mag % Scale), FracDigits))
    IN  (IF v < 0 THEN <<ChMinus>> ELSE <<>>)
        \o NatDigits(mag \div Scale)
        \o (IF frac = <<>> THEN <<>> ELSE <<ChDot>> \o frac)

\* ------------------------------------------------------------------ CRC-32
\* A uint32 is a pair [hi, lo] of 16-bit halves.
Half == 65536
Uint32 == [hi : 0..(Half - 1), lo : 0..(Half - 1)]

RECURSIVE Xor(_, _, _)
\* bitwise exclusive or of the n low bits of a and b, by halves of the width
Xor(a, b, n) ==
    IF n = 1 THEN (a + b) % 2
    ELSE LET h == n \div 2
             m == 2 ^ h
         IN  Xor(a % m, b % m, h) + m * Xor(a \div m, b \div m, n - h)

\* the reflected IEEE polynomial 0xedb88320, by halves
IEEEHi == 60856
IEEELo == 33568

\* one bit of the CRC update: shift right, xor the polynomial when the bit
\* shifted out is one
crcShift[crc \in Uint32] ==
    LET hi == crc.hi \div 2
        lo == (crc.lo \div 2) + (crc.hi % 2) * (Half \div 2)
    IN  IF crc.lo % 2 = 1
            THEN [hi |-> Xor(hi, IEEEHi, 16), lo |-> Xor(lo, IEEELo, 16)]
            ELSE [hi |-> hi, lo |-> lo]

\* n bits of the CRC update
crcShiftN[crc \in Uint32, n \in 0..8] ==
    IF n = 0 THEN crc ELSE crcShiftN[crcShift[crc], n - 1]

RECURSIVE crcUpdate(_, _)
\* crc32 update over the bytes p
crcUpdate(crc, p) ==
    IF p = <<>> THEN crc
    ELSE crcUpdate(crcShiftN[[hi |-> crc.hi, lo |-> Xor(crc.lo, Head(p), 16)], 8], Tail(p))

\* crc32.ChecksumIEEE(p)
ChecksumIEEE(p) ==
    LET r == crcUpdate([hi |-> Half - 1, lo |-> Half - 1], p) IN
    [hi |-> Half - 1 - r.hi, lo |-> Half - 1 - r.lo]

\* math.Mod(float64(c), m) for a uint32 c and a positive integer m; the halves
\* are reduced before they are combined
ModUint32(c, m) == ((c.hi % m) * (Half % m) + (c.lo % m)) % m

\* math.Abs
Abs(x) == IF x < 0 THEN 0 - x ELSE x

\* ------------------------------------------------------------- data model
alwaysControl == "alwaysControl"
alwaysExperiment == "alwaysExperiment"
everyoneElse == "everyoneElse"

any == "any"
in == "in"
nin == "nin"
equals == "equals"
gte == "gte"
gt == "gt"
lt == "lt"
lte == "lte"
doesNotEqual == "doesNotEqual"
contains == "contains"
doesNotContain == "doesNotContain"

\* the zero value of featureSegment, as a map lookup miss returns it
ZeroSegment ==
    [SegmentType |-> "", UserConstraints |-> <<>>, Percentage |-> 0, Constraint |-> ""]

\* interface{} values by dynamic type
StrV(s) == [kind |-> "string", val |-> s]
BoolV(b) == [kind |-> "bool", val |-> b]
IntV(n) == [kind |-> "int", val |-> n]
UintV(n) == [kind |-> "uint", val |-> n]
FloatV(x) == [kind |-> "float64", val |-> x]
NilV == [kind |-> "nil", val |-> 0]

\* ParamLookup without the comma-ok test: a missing key reads as the empty
\* string of a map[string]string and counts as present
ParamLookup_missingAsEmpty(params, name) ==
    IF name \in DOMAIN params THEN [value |-> params[name], exists |-> TRUE]
    ELSE [value |-> StrV(<<>>), exists |-> TRUE]

\* userValue, paramExists := user.Params[name]
ParamLookup(params, name) ==
    IF name \in DOMAIN params THEN [value |-> params[name], exists |-> TRUE]
    ELSE [value |-> NilV, exists |-> FALSE]

\* -------------------------------------------------------------- evaluator
containsParamValue(listAsString, a) ==
    LET list == Split(listAsString, ChComma) IN
    \E k \in 1..Len(list) : list[k] = a

getFloat64Value(value) ==
    CASE value.kind = "bool"    -> [v |-> 0, err |-> TRUE]
      [] value.kind = "string"  -> ParseFloat(value.val)
      [] value.kind = "uint"    -> [v |-> 0, err |-> TRUE]
      [] value.kind = "int"     -> [v |-> value.val * Scale, err |-> FALSE]
      [] value.kind = "float64" -> [v |-> value.val, err |-> FALSE]
      [] OTHER                  -> [v |-> 0, err |-> TRUE]

getBoolValue(value) ==
    CASE value.kind = "bool"    -> [v |-> value.val, err |-> FALSE]
      [] value.kind = "string"  -> ParseBool(value.val)
      [] value.kind = "int"     -> [v |-> FALSE, err |-> TRUE]
      [] value.kind = "float64" -> [v |-> value.val > 0, err |-> FALSE]
      [] OTHER                  -> [v |-> FALSE, err |-> TRUE]

getStringValue(value) ==
    CASE value.kind = "bool"    -> [v |-> FormatBool(value.val), err |-> FALSE]
      [] value.kind = "string"  -> [v |-> value.val, err |-> FALSE]
      [] value.kind = "int"     -> [v |-> <<>>, err |-> TRUE]
      [] value.kind = "float64" -> [v |-> FormatFloat(value.val), err |-> FALSE]
      [] OTHER                  -> [v |-> <<>>, err |-> TRUE]

meetsConstraintForBool(userValue, paramExists, constraint) ==
    LET values == ParseBool(constraint.Values) IN
    IF values.err THEN FALSE
    ELSE CASE constraint.Operator = equals       -> paramExists /\ userValue = values.v
           [] constraint.Operator = doesNotEqual -> paramExists /\ userValue # values.v
           [] OTHER                              -> FALSE

meetsConstraintForNumber(userValue, paramExists, constraint) ==
    LET values == ParseFloat(constraint.Values) IN
    IF values.err THEN FALSE
    ELSE CASE constraint.Operator = equals       -> paramExists /\ userValue = values.v
           [] constraint.Operator = doesNotEqual -> paramExists /\ userValue # values.v
           [] constraint.Operator = gt           -> paramExists /\ userValue > values.v
           [] constraint.Operator = lt           -> paramExists /\ userValue < values.v
           [] constraint.Operator = gte          -> paramExists /\ userValue >= values.v
           [] constraint.Operator = lte          -> paramExists /\ userValue <= values.v
           [] OTHER                              -> FALSE

\* meetsConstraintForString whose default case counts the constraint as met
meetsConstraintForString_unknownIsMet(userValue, paramExists, constraint) ==
    CASE constraint.Operator = in
            -> paramExists /\ containsParamValue(constraint.Values, userValue)
      [] constraint.Operator = nin
            -> paramExists /\ ~containsParamValue(constraint.Values, userValue)
      [] constraint.Operator = equals
            -> paramExists /\ userValue = constraint.Values
      [] constraint.Operator = doesNotEqual
            -> paramExists /\ userValue # constraint.Values
      [] constraint.Operator = contains
            -> paramExists /\ Contains(userValue, constraint.Values)
      [] constraint.Operator = doesNotContain
            -> paramExists /\ ~Contains(userValue, constraint.Values)
      [] OTHER -> TRUE

meetsConstraintForString(userValue, paramExists, constraint) ==
    CASE constraint.Operator = in
            -> paramExists /\ containsParamValue(constraint.Values, userValue)
      [] constraint.Operator = nin
            -> paramExists /\ ~containsParamValue(constraint.Values, userValue)
      [] constraint.Operator = equals
            -> paramExists /\ userValue = constraint.Values
      [] constraint.Operator = doesNotEqual
            -> paramExists /\ userValue # constraint.Values
      [] constraint.Operator = contains
            -> paramExists /\ Contains(userValue, constraint.Values)
      [] constraint.Operator = doesNotContain
            -> paramExists /\ ~Contains(userValue, constraint.Values)
      [] OTHER -> FALSE

\* resolveParam without the special case of "id"
resolveParam_noIdCase(user, constraint) ==
    ParamLookup(user.Params, constraint.UserParam)

\* the parameter a constraint reads: the map lookup, overridden by the ID
\* field when the parameter is named "id"
resolveParam(user, constraint) ==
    LET l == ParamLookup(user.Params, constraint.UserParam) IN
    IF constraint.UserParam = "id"
        THEN [value |-> StrV(user.ID), exists |-> TRUE]
        ELSE l

\* one iteration of the loop of isUserInSegment: TRUE iff it increments
\* constraintsMet
constraintMet(user, constraint) ==
    LET r == resolveParam(user, constraint) IN
    CASE constraint.UserParamType = "number" ->
            LET c == getFloat64Value(r.value) IN
            IF c.err THEN FALSE
            ELSE meetsConstraintForNumber(c.v, r.exists, constraint)
      [] constraint.UserParamType = "bool" ->
            LET c == getBoolValue(r.value) IN
            IF c.err THEN FALSE
            ELSE meetsConstraintForBool(c.v, r.exists, constraint)
      [] OTHER ->
            LET c == getStringValue(r.value) IN
            IF c.err THEN FALSE
            ELSE meetsConstraintForString(c.v, r.exists, constraint)

\* the coercion of the user's value to the constraint's type returns an
\* error, on which the loop continues with the next constraint
coercionFails(user, constraint) ==
    LET r == resolveParam(user, constraint) IN
    CASE constraint.UserParamType = "number" -> getFloat64Value(r.value).err
      [] constraint.UserParamType = "bool"   -> getBoolValue(r.value).err
      [] OTHER                               -> getStringValue(r.value).err

RECURSIVE constraintLoop_stopsAtError(_, _, _, _)
\* the loop with break in place of continue
constraintLoop_stopsAtError(user, s, i, acc) ==
    IF i > Len(s.UserConstraints) THEN acc
    ELSE IF coercionFails(user, s.UserConstraints[i]) THEN acc
    ELSE constraintLoop_stopsAtError(user, s, i + 1,
            IF constraintMet(user, s.UserConstraints[i])
                THEN [constraintsMet |-> acc.constraintsMet + 1,
                      counted |-> acc.counted \cup {i}]
                ELSE acc)

RECURSIVE constraintLoop(_, _, _, _)
\* the loop of isUserInSegment from index i on; acc holds constraintsMet and
\* the iterations that incremented it
constraintLoop(user, s, i, acc) ==
    IF i > Len(s.UserConstraints) THEN acc
    ELSE constraintLoop(user, s, i + 1,
            IF constraintMet(user, s.UserConstraints[i])
                THEN [constraintsMet |-> acc.constraintsMet + 1,
                      counted |-> acc.counted \cup {i}]
                ELSE acc)

\* constraintsToBeMet that ignores the constraint mode
constraintsToBeMet_ignoresMode(s) == Len(s.UserConstraints)

constraintsToBeMet(s) ==
    IF s.Constraint = any THEN 1 ELSE Len(s.UserConstraints)

\* the locals of isUserInSegment when it returns, and its result
isUserInSegmentRun(user, s) ==
    LET acc == constraintLoop(user, s, 1, [constraintsMet |-> 0, counted |-> {}]) IN
    [constraintsMet |-> acc.constraintsMet,
     counted |-> acc.counted,
     ret |-> acc.constraintsMet >= constraintsToBeMet(s)]

isUserInSegment(user, s) == isUserInSegmentRun(user, s).ret

\* byte strings the inputs are written with
str_empty == <<>>
str_1 == <<49>>
str_2 == <<50>>
str_5 == <<53>>
str_1234 == <<49, 50, 51, 52>>
str_bar == <<98, 97, 114>>
str_yes == <<121, 101, 115>>
str_list == <<53, 44, 116, 114, 117, 101>>

\* the user ids of the inputs; crc32 mod 100 of these ids: "" 0, "2" 37, "1234" 59, "5" 66, "true" 17
UserIDs == {str_empty, str_2, str_5, str_1234, str_true}

\* the checksums of the input ids, computed once
checksumOf == [id \in UserIDs |-> ChecksumIEEE(id)]

\* v of getUserPercentage: |crc32(user.ID) mod 100|
userBucket(id) ==
    LET c == IF id \in DOMAIN checksumOf THEN checksumOf[id] ELSE ChecksumIEEE(id) IN
    Abs(ModUint32(c, 100))
\* getUserPercentage comparing with <= instead of <
getUserPercentage_lte(user, segment) ==
    IF segment.Percentage = 100 THEN TRUE
    ELSE userBucket(user.ID) * Scale <= segment.Percentage * Scale

\* getUserPercentage with the comparison turned around
getUserPercentage_flipped(user, segment) ==
    IF segment.Percentage = 100 THEN TRUE
    ELSE userBucket(user.ID) * Scale > segment.Percentage * Scale

getUserPercentage(user, segment) ==
    IF segment.Percentage = 100 THEN TRUE
    ELSE userBucket(user.ID) * Scale < segment.Percentage * Scale

RECURSIVE buildSegmentMap_firstWins(_, _, _)
\* the indexing loop that keeps the first segment of a type
buildSegmentMap_firstWins(segments, i, m) ==
    IF i > Len(segments) THEN m
    ELSE LET s == segments[i] IN
         IF s.SegmentType \in {alwaysControl, alwaysExperiment, everyoneElse}
               /\ s.SegmentType \notin DOMAIN m
            THEN buildSegmentMap_firstWins(segments, i + 1,
                    [k \in DOMAIN m \cup {s.SegmentType} |->
                        IF k = s.SegmentType THEN s ELSE m[k]])
            ELSE buildSegmentMap_firstWins(segments, i + 1, m)

RECURSIVE buildSegmentMap(_, _, _)
\* the loop that indexes f.Segments by segment type
buildSegmentMap(segments, i, m) ==
    IF i > Len(segments) THEN m
    ELSE LET s == segments[i] IN
         IF s.SegmentType \in {alwaysControl, alwaysExperiment, everyoneElse}
            THEN buildSegmentMap(segments, i + 1,
                    [k \in DOMAIN m \cup {s.SegmentType} |->
                        IF k = s.SegmentType THEN s ELSE m[k]])
            ELSE buildSegmentMap(segments, i + 1, m)

\* segmentAt that treats a missing segment as a full rollout
segmentAt_missingIsFull(m, key) ==
    IF key \in DOMAIN m THEN m[key] ELSE [ZeroSegment EXCEPT !.Percentage = 100]

\* segmentMap[key] with Go's zero value on a miss
segmentAt(m, key) == IF key \in DOMAIN m THEN m[key] ELSE ZeroSegment

\* isActive that asks the everyoneElse segment for its constraints too
isActive_everyoneElseConstrained(f, user) ==
    IF ~f.Active THEN FALSE
    ELSE IF user = <<>> THEN TRUE
    ELSE LET segmentMap == buildSegmentMap(f.Segments, 1, <<>>) IN
         IF alwaysControl \in DOMAIN segmentMap
               /\ isUserInSegment(user[1], segmentMap[alwaysControl])
            THEN FALSE
         ELSE IF alwaysExperiment \in DOMAIN segmentMap
               /\ isUserInSegment(user[1], segmentMap[alwaysExperiment])
            THEN TRUE
         ELSE /\ isUserInSegment(user[1], segmentAt(segmentMap, everyoneElse))
              /\ getUserPercentage(user[1], segmentAt(segmentMap, everyoneElse))

\* isActive without the check of the master switch
isActive_ignoresActive(f, user) ==
    IF user = <<>> THEN TRUE
    ELSE LET segmentMap == buildSegmentMap(f.Segments, 1, <<>>) IN
         IF alwaysControl \in DOMAIN segmentMap
               /\ isUserInSegment(user[1], segmentMap[alwaysControl])
            THEN FALSE
         ELSE IF alwaysExperiment \in DOMAIN segmentMap
               /\ isUserInSegment(user[1], segmentMap[alwaysExperiment])
            THEN TRUE
         ELSE getUserPercentage(user[1], segmentAt(segmentMap, everyoneElse))

\* isActive that evaluates the segments for a nil user as for a user with
\* the zero value of User
isActive_nilAsZeroUser(f, user) ==
    IF ~f.Active THEN FALSE
    ELSE LET u == IF user = <<>> THEN [ID |-> <<>>, Params |-> <<>>] ELSE user[1]
             segmentMap == buildSegmentMap(f.Segments, 1, <<>>)
         IN
         IF alwaysControl \in DOMAIN segmentMap
               /\ isUserInSegment(u, segmentMap[alwaysControl])
            THEN FALSE
         ELSE IF alwaysExperiment \in DOMAIN segmentMap
               /\ isUserInSegment(u, segmentMap[alwaysExperiment])
            THEN TRUE
         ELSE getUserPercentage(u, segmentAt(segmentMap, everyoneElse))

\* isActive that checks alwaysExperiment before alwaysControl
isActive_experimentFirst(f, user) ==
    IF ~f.Active THEN FALSE
    ELSE IF user = <<>> THEN TRUE
    ELSE LET segmentMap == buildSegmentMap(f.Segments, 1, <<>>) IN
         IF alwaysExperiment \in DOMAIN segmentMap
               /\ isUserInSegment(user[1], segmentMap[alwaysExperiment])
            THEN TRUE
         ELSE IF alwaysControl \in DOMAIN segmentMap
               /\ isUserInSegment(user[1], segmentMap[alwaysControl])
            THEN FALSE
         ELSE getUserPercentage(user[1], segmentAt(segmentMap, everyoneElse))

\* isActive that lets the percentage decide for the users of alwaysExperiment
isActive_experimentByPercentage(f, user) ==
    IF ~f.Active THEN FALSE
    ELSE IF user = <<>> THEN TRUE
    ELSE LET segmentMap == buildSegmentMap(f.Segments, 1, <<>>) IN
         IF alwaysControl \in DOMAIN segmentMap
               /\ isUserInSegment(user[1], segmentMap[alwaysControl])
            THEN FALSE
         ELSE getUserPercentage(user[1], segmentAt(segmentMap, everyoneElse))

\* user is a *User: <<>> is nil, <<u>> points to u
isActive(f, user) ==
    IF ~f.Active THEN FALSE
    ELSE IF user = <<>> THEN TRUE
    ELSE LET segmentMap == buildSegmentMap(f.Segments, 1, <<>>) IN
         IF alwaysControl \in DOMAIN segmentMap
               /\ isUserInSegment(user[1], segmentMap[alwaysControl])
            THEN FALSE
         ELSE IF alwaysExperiment \in DOMAIN segmentMap
               /\ isUserInSegment(user[1], segmentMap[alwaysExperiment])
            THEN TRUE
         ELSE getUserPercentage(user[1], segmentAt(segmentMap, everyoneElse))

\* ----------------------------------------------------------------- inputs
Range(q) == {q[i] : i \in DOMAIN q}
SeqsUpTo(S, n) == UNION {[1..k -> S] : k \in 0..n}

Constraint(op, values, param, type) ==
    [Operator |-> op, Values |-> values, UserParam |-> param, UserParamType |-> type]

Segment(type, mode, constraints, percentage) ==
    [SegmentType |-> type, UserConstraints |-> constraints,
     Percentage |-> percentage, Constraint |-> mode]

c_control == Constraint(equals, str_true, "controlUser", "bool")
c_experiment == Constraint(in, str_list, "experimentUser", "string")

\* segments the feature-level inputs are built from
FeatureSegments ==
    { Segment(alwaysControl, "all", <<>>, 0),
      Segment(alwaysControl, "all", <<c_control>>, 0),
      Segment(alwaysExperiment, "all", <<c_experiment>>, 0),
      Segment(everyoneElse, "all", <<>>, 0),
      Segment(everyoneElse, "all", <<>>, 50),
      Segment(everyoneElse, "all", <<>>, 100) }

FeatureParams ==
    { <<>>,
      [k \in {"controlUser"} |-> BoolV(TRUE)],
      [k \in {"experimentUser"} |-> StrV(str_5)],
      [k \in {"controlUser", "experimentUser"} |->
          IF k = "controlUser" THEN StrV(str_true) ELSE StrV(str_true)] }

FeatureUsers ==
    { [ID |-> str_empty, Params |-> <<>>],
      [ID |-> str_2, Params |-> <<>>],
      [ID |-> str_1234, Params |-> <<>>] }
    \cup { [ID |-> str_5, Params |-> p] : p \in FeatureParams }

\* operators a constraint may carry, the last one unknown to the evaluator
Operators ==
    {in, nin, equals, doesNotEqual, contains, doesNotContain, gt, gte, lt, lte, "regex"}

ParamTypes == {"string", "number", "bool"}

ConstraintValues == {str_true, str_5, str_list, str_bar}

AllConstraints ==
    { Constraint(op, v, p, t) :
        op \in Operators, v \in ConstraintValues, p \in {"id", "k"}, t \in ParamTypes }

\* constraints that longer constraint lists are built from
ListConstraints ==
    { Constraint(equals, str_5, "id", "number"),
      Constraint(nin, str_list, "k", "string"),
      Constraint(doesNotEqual, str_true, "k", "bool"),
      Constraint(lte, str_5, "k", "number") }

SegmentInputs ==
    { Segment(alwaysExperiment, "all", <<c>>, 0) : c \in AllConstraints }
    \cup { Segment(alwaysExperiment, m, cs, 0) :
             m \in {"all", any}, cs \in SeqsUpTo(ListConstraints, MaxConstraints) }

ParamValues ==
    { StrV(str_true), StrV(str_5), StrV(str_bar), BoolV(TRUE), BoolV(FALSE),
      IntV(5), UintV(5), FloatV(5 * Scale), FloatV(0 - Scale \div 2) }

SegmentParams ==
    { <<>>, [k \in {"id"} |-> StrV(str_bar)] }
    \cup { [k \in {"k"} |-> v] : v \in ParamValues }

SegmentUsers == { [ID |-> id, Params |-> p] : id \in {str_5, str_true}, p \in SegmentParams }

\* largest percentage of the percentage inputs
MaxPercentage == 101

\* single everyoneElse segments over the whole percentage range, with one
\* value outside it at either end
PercentageInputs ==
    { Segment(everyoneElse, "all", <<>>, p) : p \in (0 - 1)..MaxPercentage }

PercentageUsers == { [ID |-> id, Params |-> <<>>] : id \in UserIDs }

Features ==
    { [Active |-> a, Segments |-> ss] :
        a \in BOOLEAN, ss \in SeqsUpTo(FeatureSegments, MaxSegments) }

\* segments of a type the evaluator does not know, and everyoneElse segments
\* that carry constraints and a constraint mode
OtherSegments ==
    { Segment("beta", "all", <<>>, 100),
      Segment(everyoneElse, "all", <<c_control>>, 100),
      Segment(everyoneElse, any, <<>>, 0),
      Segment(alwaysControl, "all", <<c_control>>, 0) }

OtherFeatures ==
    { [Active |-> TRUE, Segments |-> ss] : ss \in SeqsUpTo(OtherSegments, MaxSegments) }

\* ---------------------------------------------------------- specification
\* the evaluator's call: its arguments, the function called and what it
\* returned
VARIABLES feature, userArg, fn, seg, ret, constraintsMet, counted,
          earlier   \* what the isActive calls before the last call returned

evalVars == <<feature, userArg, fn, seg, ret, constraintsMet, counted, earlier>>

\* the client: the fields of struct client, the goroutines' positions, the
\* ticker and the stream, and what the caller and the server have seen
VARIABLES
    main,               \* the calling goroutine: "start", "ready", "reading", "failed",
                        \* "crashed" by a fatal error, "panicked"
    apiKey, polling, autoSendEvents,
    initErr,            \* the error Init returned, "" for nil
    featuresCache, initiated, etag, isStreamConnected,
    subscribed,         \* eventsChannel is subscribed to the stream
    tickerStopped,      \* refreshTicker.Stop() has been called
    tickBuffered,       \* a tick waits in refreshTicker.C
    refresher,          \* the refresh goroutine: position and the loop it is in
    lastResp,           \* what the HTTP client gave the last fetchFeatures
    requests,           \* GET /features requests sent
    uploads,            \* the analytics uploads handed to goroutines, in order
    call,               \* the caller's last call and its result
    snap,               \* featuresCache as it was when the last map read began
    raced,              \* the map read in progress has overlapped a map write
    stopped,            \* Stop has returned
    decoded,            \* a body has been decoded without error
    ticks, events, calls

clientVars ==
    <<main, apiKey, polling, autoSendEvents, initErr, featuresCache, initiated,
      etag, isStreamConnected, subscribed, tickerStopped, tickBuffered,
      refresher, lastResp, requests, uploads, call, snap, raced, stopped,
      decoded, ticks, events, calls>>

vars == <<evalVars, clientVars>>

\* the refresh goroutine outside a loop over features
Refresher(pc) == [pc |-> pc, src |-> "none", pending |-> <<>>, etag |-> ""]

NoResp == [kind |-> "none", status |-> 0, features |-> <<>>, decodeErr |-> FALSE, etag |-> ""]

\* a call of the caller: its arguments (nilParams: the Params map of the
\* user passed is nil), the entries its map read may yield, its result, the
\* caller's User value after it and the uploads it handed to goroutines
NoCall ==
    [op |-> "none", key |-> "", user |-> <<>>, nilParams |-> FALSE,
     details |-> <<>>, entries |-> {}, result |-> FALSE, userAfter |-> <<>>,
     emitted |-> 0]

\* no client has been constructed
NoClient ==
    /\ main = "start"
    /\ apiKey = ""
    /\ polling = FALSE
    /\ autoSendEvents = FALSE
    /\ initErr = ""
    /\ featuresCache = <<>>
    /\ initiated = FALSE
    /\ etag = ""
    /\ isStreamConnected = FALSE
    /\ subscribed = FALSE
    /\ tickerStopped = FALSE
    /\ tickBuffered = FALSE
    /\ refresher = Refresher("none")
    /\ lastResp = NoResp
    /\ requests = 0
    /\ uploads = <<>>
    /\ call = NoCall
    /\ snap = <<>>
    /\ raced = FALSE
    /\ stopped = FALSE
    /\ decoded = FALSE
    /\ ticks = 0
    /\ events = 0
    /\ calls = 0

\* features and users as a caller may pass them; nothing has been called
Init ==
    /\ \/ /\ feature \in Features
          /\ userArg \in {<<>>} \cup {<<u>> : u \in FeatureUsers}
       \/ /\ feature \in {[Active |-> TRUE, Segments |-> <<s>>] : s \in SegmentInputs}
          /\ userArg \in {<<u>> : u \in SegmentUsers}
       \/ /\ feature \in {[Active |-> TRUE, Segments |-> <<s>>] : s \in PercentageInputs}
          /\ userArg \in {<<u>> : u \in PercentageUsers}
       \/ /\ feature \in OtherFeatures
          /\ userArg \in {<<u>> : u \in FeatureUsers}
    /\ fn = "none"
    /\ seg = ZeroSegment
    /\ ret = FALSE
    /\ constraintsMet = 0
    /\ counted = {}
    /\ earlier = {}
    /\ NoClient

\* the results of the isActive calls made so far
Earlier == IF fn = "isActive" THEN earlier \cup {ret} ELSE earlier

\* isActive whose result depends on what the call before it returned
CallIsActive_sticky ==
    /\ fn' = "isActive"
    /\ ret' = (ret \/ isActive(feature, userArg))
    /\ seg' = ZeroSegment
    /\ constraintsMet' = 0
    /\ counted' = {}
    /\ earlier' = Earlier
    /\ UNCHANGED <<feature, userArg>>
    /\ UNCHANGED clientVars

\* isActive(f, user)
CallIsActive ==
    /\ fn' = "isActive"
    /\ ret' = isActive(feature, userArg)
    /\ seg' = ZeroSegment
    /\ constraintsMet' = 0
    /\ counted' = {}
    /\ earlier' = Earlier
    /\ UNCHANGED <<feature, userArg>>
    /\ UNCHANGED clientVars

\* isUserInSegment(*user, s) for a segment s of the feature
CallIsUserInSegment ==
    /\ userArg # <<>>
    /\ \E s \in Range(feature.Segments) :
          LET r == isUserInSegmentRun(userArg[1], s) IN
          /\ fn' = "isUserInSegment"
          /\ seg' = s
          /\ ret' = r.ret
          /\ constraintsMet' = r.constraintsMet
          /\ counted' = r.counted
    /\ earlier' = Earlier
    /\ UNCHANGED <<feature, userArg>>
    /\ UNCHANGED clientVars

\* getUserPercentage(*user, s) for a segment s of the feature, or for the
\* zero segment a feature without everyoneElse yields
CallGetUserPercentage ==
    /\ userArg # <<>>
    /\ \E s \in Range(feature.Segments) \cup {ZeroSegment} :
          /\ fn' = "getUserPercentage"
          /\ seg' = s
          /\ ret' = getUserPercentage(userArg[1], s)
    /\ constraintsMet' = 0
    /\ counted' = {}
    /\ earlier' = Earlier
    /\ UNCHANGED <<feature, userArg>>
    /\ UNCHANGED clientVars

Next == CallIsActive \/ CallIsUserInSegment \/ CallGetUserPercentage

Spec == Init /\ [][Next]_vars

\* ------------------------------------------------------------------ client
\* bound of the client's runs: the ticks the ticker delivers, the events the
\* stream delivers and the calls the caller makes after Init, together
MaxSteps == 3

StatusOK == 200
StatusNotModified == 304
StatusInternalServerError == 500

ErrAPIKey == "API KEY must be supplied"
ErrConnect == "Failed to connect to Molasses channel"

ZeroFeature == [ID |-> "", Key |-> "", Active |-> FALSE, Segments |-> <<>>]

\* an assignment that replaces the map by the one entry
storeFeature_replaces(cache, f) == [k \in {f.Key} |-> f]

\* c.featuresCache[f.Key] = f
storeFeature(cache, f) ==
    [k \in DOMAIN cache \cup {f.Key} |-> IF k = f.Key THEN f ELSE cache[k]]

\* for _, feature := range features { c.featuresCache[feature.Key] = feature }
RECURSIVE storeFeatures(_, _)
storeFeatures(cache, features) ==
    IF features = <<>> THEN cache
    ELSE storeFeatures(storeFeature(cache, Head(features)), Tail(features))

\* f, ok := c.featuresCache[key]
cacheLookup(cache, key) ==
    IF key \in DOMAIN cache THEN [f |-> cache[key], ok |-> TRUE]
    ELSE [f |-> ZeroFeature, ok |-> FALSE]

\* fetchFeatures with the 304 test left out: a 304 is decoded like any
\* other response
fetchReturnsEarly_not304(resp) == resp.kind = "error"

\* fetchFeatures returns before it decodes: the HTTP client returned an
\* error, or the response is 304 Not Modified
fetchReturnsEarly(resp) ==
    resp.kind = "error" \/ resp.status = StatusNotModified

\* fetchFeatures on the fields c of a client, given what the HTTP client
\* returns; the decoder's error is dropped and whatever it decoded is stored
fetchFeatures(c, resp) ==
    IF fetchReturnsEarly(resp) THEN c
    ELSE [featuresCache |-> storeFeatures(c.featuresCache, resp.features),
          initiated |-> TRUE,
          etag |-> resp.etag]

\* Init that gives up when the first fetch fails
InitErr_fetchErrorFails(key, poll, subOK, fetchErr) ==
    IF key = "" THEN ErrAPIKey
    ELSE IF poll /\ fetchErr THEN ErrConnect
    ELSE IF ~poll /\ ~subOK THEN ErrConnect
    ELSE ""

\* the error Init returns, "" for nil; the first fetch's error is logged
InitErr(key, poll, subOK, fetchErr) ==
    IF key = "" THEN ErrAPIKey
    ELSE IF ~poll /\ ~subOK THEN ErrConnect
    ELSE ""

\* Init that tests the API key after the first fetch
InitFetches_beforeKeyTest(key, poll) == poll

\* Init calls fetchFeatures
InitFetches(key, poll) == key # "" /\ poll

\* Init calls sseClient.SubscribeChan
InitSubscribes(key, poll) == key # "" /\ ~poll

\* IsActive that takes a key it does not know as active
IsActiveResult_missIsActive(l, users) ==
    IF ~l.ok THEN TRUE ELSE isActive(l.f, users)

\* IsActive that evaluates the feature without the user it was given
IsActiveResult_dropsUser(l, users) ==
    IF ~l.ok THEN FALSE ELSE isActive(l.f, <<>>)

\* what IsActive returns on the lookup l of its key, for the users passed:
\* only the first user counts
IsActiveResult(l, users) ==
    IF ~l.ok THEN FALSE
    ELSE IF users = <<>> THEN isActive(l.f, <<>>)
    ELSE isActive(l.f, <<users[1]>>)

\* the label the events carry for a result
testType(result) == IF result THEN "control" ELSE "experiment"

\* the event IsActive uploads
startedEvent(key, user, f, result) ==
    [Event |-> "experiment_started", Tags |-> user.Params, UserID |-> user.ID,
     FeatureID |-> f.ID, FeatureName |-> key, TestType |-> testType(result)]

\* IsActive that uploads whatever autoSendEvents is
IsActiveUploads_always(l, users, autoSend) == l.ok /\ users # <<>>

\* IsActive reaches its deferred uploadEvent
IsActiveUploads(l, users, autoSend) == l.ok /\ users # <<>> /\ autoSend

\* a value json.Marshal has no encoding for
FuncV == [kind |-> "func", val |-> 0]

\* uploadEvent gets past json.Marshal: every tag has an encoding
marshals(e) == \A k \in DOMAIN e.Tags : e.Tags[k].kind # "func"

\* the uploads after uploadEvent(e): the request handed to a goroutine, or
\* nothing when the event does not marshal
uploadEvent(ups, e) ==
    IF marshals(e) THEN Append(ups, [e |-> e, state |-> "inflight"]) ELSE ups

\* for k, v := range additionalDetails { user.Params[k] = v }
mergeDetails(params, details) ==
    [k \in DOMAIN params \cup DOMAIN details |->
        IF k \in DOMAIN details THEN details[k] ELSE params[k]]

\* the event ExperimentStarted and ExperimentSuccess upload
experimentEvent(name, key, user, params, f, result) ==
    [Event |-> name, Tags |-> params, UserID |-> user.ID,
     FeatureID |-> f.ID, FeatureName |-> key, TestType |-> testType(result)]

\* ---------------------------------------------------- inputs of the client
APIKeys == {"", "API_KEY"}

f_A1 == [ID |-> "f1", Key |-> "A", Active |-> TRUE,
         Segments |-> <<Segment(everyoneElse, "all", <<>>, 50)>>]
f_A2 == [ID |-> "f1", Key |-> "A", Active |-> FALSE, Segments |-> <<>>]
f_B == [ID |-> "f2", Key |-> "B", Active |-> TRUE, Segments |-> <<>>]

\* the keys a caller asks for: "Z" is in no payload
Keys == {"A", "B", "Z"}

\* the payloads the server sends: feature lists, and a body that does not
\* decode
Payloads ==
    { [features |-> <<f_A1>>, decodeErr |-> FALSE, etag |-> "v1"],
      [features |-> <<f_A2, f_B>>, decodeErr |-> FALSE, etag |-> "v2"],
      [features |-> <<>>, decodeErr |-> TRUE, etag |-> ""] }

\* the status a body comes with: a body that does not decode is the
\* server's error page
StatusOf(p) == IF p.decodeErr THEN StatusInternalServerError ELSE StatusOK

RespError == [NoResp EXCEPT !.kind = "error"]

\* what httpClient.Do returns: an error, a 304, or a response with a body
Responses ==
    { RespError,
      [NoResp EXCEPT !.kind = "response", !.status = StatusNotModified, !.etag = "v1"] }
    \cup { [kind |-> "response", status |-> StatusOf(p), features |-> p.features,
            decodeErr |-> p.decodeErr, etag |-> p.etag] : p \in Payloads }

\* the users passed to IsActive: none, or one, whose id "2" is in the
\* first half of the buckets, without parameters or with one that does not
\* marshal
UserArgs ==
    { <<>>,
      <<[ID |-> str_2, Params |-> <<>>]>>,
      <<[ID |-> str_2, Params |-> [k \in {"cb"} |-> FuncV]]>> }

\* the calls of IsActive: every user for the key both payloads serve, one
\* user for the key one payload serves and for the key none serves
IsActiveArgs ==
    { [key |-> "A", user |-> u] : u \in UserArgs }
    \cup { [key |-> k, user |-> <<[ID |-> str_2, Params |-> <<>>]>>] : k \in Keys }

\* the calls of ExperimentStarted and ExperimentSuccess: the key, a user
\* without parameters, whose Params map is nil or empty, and the details
ExperimentOps == {"ExperimentStarted", "ExperimentSuccess"}

\* the name of the event each of them uploads
eventName(op) ==
    IF op = "ExperimentStarted" THEN "experiment_started" ELSE "experiment_success"

ExperimentUser == [ID |-> str_2, Params |-> <<>>]

NoDetails == <<>>

PlanDetails == [k \in {"plan"} |-> StrV(str_yes)]

ExperimentArgs ==
    { [op |-> "ExperimentStarted", key |-> "A", nilParams |-> FALSE,
       details |-> NoDetails],
      [op |-> "ExperimentStarted", key |-> "A", nilParams |-> FALSE,
       details |-> PlanDetails],
      [op |-> "ExperimentStarted", key |-> "A", nilParams |-> TRUE,
       details |-> PlanDetails],
      [op |-> "ExperimentSuccess", key |-> "A", nilParams |-> FALSE,
       details |-> PlanDetails] }

\* --------------------------------------------- specification of the client
\* the process has not died of a fatal runtime error
Running == main \notin {"start", "crashed", "panicked"}

\* Init(options), with what the HTTP client returns to the first fetch and
\* whether the stream accepts the subscription
ClientInit ==
    /\ main = "start"
    /\ \E key \in APIKeys, poll \in BOOLEAN, auto \in BOOLEAN,
          resp \in Responses \cup {NoResp}, subOK \in BOOLEAN :
          LET fetches == InitFetches(key, poll)
              err == InitErr(key, poll, subOK, resp.kind = "error")
              zero == [featuresCache |-> <<>>, initiated |-> FALSE, etag |-> ""]
              c == IF fetches THEN fetchFeatures(zero, resp) ELSE zero
          IN
          /\ (resp = NoResp) <=> ~fetches
          /\ subOK \/ InitSubscribes(key, poll)
          /\ apiKey' = key
          /\ polling' = poll
          /\ autoSendEvents' = auto
          /\ initErr' = err
          /\ requests' = IF fetches THEN 1 ELSE 0
          /\ lastResp' = resp
          /\ featuresCache' = c.featuresCache
          /\ initiated' = c.initiated
          /\ etag' = c.etag
          /\ subscribed' = (InitSubscribes(key, poll) /\ subOK)
          /\ refresher' = IF err = "" THEN Refresher("select") ELSE Refresher("none")
          /\ main' = IF err = "" THEN "ready" ELSE "failed"
          /\ call' = [NoCall EXCEPT !.op = "Init"]
          /\ decoded' = (fetches /\ ~fetchReturnsEarly(resp) /\ ~resp.decodeErr)
    /\ UNCHANGED <<isStreamConnected, tickerStopped, tickBuffered, uploads,
                   snap, raced, stopped, ticks, events, calls>>
    /\ UNCHANGED evalVars

\* the ticker puts a tick in its channel of capacity one
Tick ==
    /\ Running
    /\ ~tickerStopped
    /\ ~tickBuffered
    /\ ticks + events + calls < MaxSteps
    /\ tickBuffered' = TRUE
    /\ ticks' = ticks + 1
    /\ UNCHANGED decoded
    /\ UNCHANGED <<main, apiKey, polling, autoSendEvents, initErr,
                   featuresCache, initiated, etag, isStreamConnected,
                   subscribed, tickerStopped, refresher, lastResp, requests,
                   uploads, call, snap, raced, stopped, events, calls>>
    /\ UNCHANGED evalVars

\* refresh: case <-c.refreshTicker.C, up to the request fetchFeatures sends
RefreshTick ==
    /\ Running
    /\ refresher.pc = "select"
    /\ tickBuffered
    /\ tickBuffered' = FALSE
    /\ IF polling
          THEN /\ refresher' = Refresher("fetching")
               /\ requests' = requests + 1
          ELSE UNCHANGED <<refresher, requests>>
    /\ UNCHANGED decoded
    /\ UNCHANGED <<main, apiKey, polling, autoSendEvents, initErr,
                   featuresCache, initiated, etag, isStreamConnected,
                   subscribed, tickerStopped, lastResp, uploads, call, snap,
                   raced, stopped, ticks, events, calls>>
    /\ UNCHANGED evalVars

\* fetchFeatures in refresh: httpClient.Do returns, and the body is decoded
\* unless the function returns early
FetchRespond ==
    /\ Running
    /\ refresher.pc = "fetching"
    /\ \E resp \in Responses :
          /\ lastResp' = resp
          /\ refresher' =
                IF fetchReturnsEarly(resp) THEN Refresher("select")
                ELSE [pc |-> "loop", src |-> "fetch",
                      pending |-> resp.features, etag |-> resp.etag]
          /\ decoded' = (decoded \/ (~fetchReturnsEarly(resp) /\ ~resp.decodeErr))
    /\ UNCHANGED <<main, apiKey, polling, autoSendEvents, initErr,
                   featuresCache, initiated, etag, isStreamConnected,
                   subscribed, tickerStopped, tickBuffered, requests, uploads,
                   call, snap, raced, stopped, ticks, events, calls>>
    /\ UNCHANGED evalVars

\* refresh: case res := <-c.eventsChannel; json.Unmarshal's error is logged
\* and what it decoded is stored
StreamEvent ==
    /\ Running
    /\ refresher.pc = "select"
    /\ subscribed
    /\ ticks + events + calls < MaxSteps
    /\ \E p \in Payloads :
          /\ refresher' = [pc |-> "loop", src |-> "event",
                           pending |-> p.features, etag |-> ""]
          /\ decoded' = (decoded \/ ~p.decodeErr)
    /\ events' = events + 1
    /\ UNCHANGED <<main, apiKey, polling, autoSendEvents, initErr,
                   featuresCache, initiated, etag, isStreamConnected,
                   subscribed, tickerStopped, tickBuffered, lastResp,
                   requests, uploads, call, snap, raced, stopped, ticks, calls>>
    /\ UNCHANGED evalVars

\* the assignment c.featuresCache[feature.Key] = feature begins; no lock is
\* taken, so it may begin while the caller reads the map
WriteBegin ==
    /\ Running
    /\ refresher.pc = "loop"
    /\ refresher.pending # <<>>
    /\ refresher' = [refresher EXCEPT !.pc = "assign"]
    /\ raced' = (raced \/ main = "reading")
    /\ UNCHANGED decoded
    /\ UNCHANGED <<main, apiKey, polling, autoSendEvents, initErr,
                   featuresCache, initiated, etag, isStreamConnected,
                   subscribed, tickerStopped, tickBuffered, lastResp,
                   requests, uploads, call, snap, stopped, ticks, events, calls>>
    /\ UNCHANGED evalVars

\* the assignment ends
WriteEnd ==
    /\ Running
    /\ refresher.pc = "assign"
    /\ featuresCache' = storeFeature(featuresCache, Head(refresher.pending))
    /\ refresher' = [refresher EXCEPT !.pc = "loop", !.pending = Tail(@)]
    /\ UNCHANGED decoded
    /\ UNCHANGED <<main, apiKey, polling, autoSendEvents, initErr, initiated,
                   etag, isStreamConnected, subscribed, tickerStopped,
                   tickBuffered, lastResp, requests, uploads, call, snap,
                   raced, stopped, ticks, events, calls>>
    /\ UNCHANGED evalVars

\* after the loop: fetchFeatures sets initiated and etag, the stream case
\* sets isStreamConnected and initiated
LoopExit ==
    /\ Running
    /\ refresher.pc = "loop"
    /\ refresher.pending = <<>>
    /\ initiated' = TRUE
    /\ IF refresher.src = "fetch"
          THEN etag' = refresher.etag /\ UNCHANGED isStreamConnected
          ELSE isStreamConnected' = TRUE /\ UNCHANGED etag
    /\ refresher' = Refresher("select")
    /\ UNCHANGED decoded
    /\ UNCHANGED <<main, apiKey, polling, autoSendEvents, initErr,
                   featuresCache, subscribed, tickerStopped, tickBuffered,
                   lastResp, requests, uploads, call, snap, raced, stopped,
                   ticks, events, calls>>
    /\ UNCHANGED evalVars

\* the OnDisconnect callback of the stream
StreamDisconnect ==
    /\ Running
    /\ subscribed
    /\ isStreamConnected
    /\ isStreamConnected' = FALSE
    /\ UNCHANGED decoded
    /\ UNCHANGED <<main, apiKey, polling, autoSendEvents, initErr,
                   featuresCache, initiated, etag, subscribed, tickerStopped,
                   tickBuffered, refresher, lastResp, requests, uploads, call,
                   snap, raced, stopped, ticks, events, calls>>
    /\ UNCHANGED evalVars

\* IsActive(key, user...) begins to read c.featuresCache[key]
IsActiveBegin ==
    /\ main = "ready"
    /\ ticks + events + calls < MaxSteps
    /\ \E a \in IsActiveArgs :
          call' = [NoCall EXCEPT !.op = "IsActive", !.key = a.key,
                                 !.user = a.user, !.userAfter = a.user]
    /\ main' = "reading"
    /\ snap' = featuresCache
    /\ raced' = (refresher.pc = "assign")
    /\ calls' = calls + 1
    /\ UNCHANGED decoded
    /\ UNCHANGED <<apiKey, polling, autoSendEvents, initErr, featuresCache,
                   initiated, etag, isStreamConnected, subscribed,
                   tickerStopped, tickBuffered, refresher, lastResp, requests,
                   uploads, stopped, ticks, events>>
    /\ UNCHANGED evalVars

\* what the map read in progress may yield: the entry of the key, and after
\* an overlap with a write the entry before it or the one being written
ReadOutcomes ==
    IF raced
        THEN {cacheLookup(snap, call.key), cacheLookup(featuresCache, call.key)}
             \cup (IF refresher.pc = "assign" /\ Head(refresher.pending).Key = call.key
                      THEN {[f |-> Head(refresher.pending), ok |-> TRUE]}
                      ELSE {})
        ELSE {cacheLookup(featuresCache, call.key)}

\* the rest of IsActive: the result, and with a user and autoSendEvents the
\* deferred uploadEvent, which hands the request to a goroutine and returns
IsActiveEnd ==
    /\ main = "reading"
    /\ call.op = "IsActive"
    /\ \E l \in ReadOutcomes :
          LET result == IsActiveResult(l, call.user) IN
          /\ uploads' =
                IF IsActiveUploads(l, call.user, autoSendEvents)
                    THEN uploadEvent(uploads,
                                     startedEvent(call.key, call.user[1], l.f, result))
                    ELSE uploads
          /\ call' = [call EXCEPT !.result = result, !.entries = ReadOutcomes,
                                  !.emitted = Len(uploads') - Len(uploads)]
    /\ main' = "ready"
    /\ UNCHANGED decoded
    /\ UNCHANGED <<apiKey, polling, autoSendEvents, initErr, featuresCache,
                   initiated, etag, isStreamConnected, subscribed,
                   tickerStopped, tickBuffered, refresher, lastResp, requests,
                   snap, raced, stopped, ticks, events, calls>>
    /\ UNCHANGED evalVars

\* the runtime finds the map read and written at once and ends the process
IsActiveFatal ==
    /\ main = "reading"
    /\ raced
    /\ main' = "crashed"
    /\ UNCHANGED decoded
    /\ UNCHANGED <<apiKey, polling, autoSendEvents, initErr, featuresCache,
                   initiated, etag, isStreamConnected, subscribed,
                   tickerStopped, tickBuffered, refresher, lastResp, requests,
                   uploads, call, snap, raced, stopped, ticks, events, calls>>
    /\ UNCHANGED evalVars

\* ExperimentStarted(key, user, details) and ExperimentSuccess: return at
\* once on a client that is not initiated, or begin to read
\* c.featuresCache[key]
ExperimentBegin ==
    /\ main = "ready"
    /\ ticks + events + calls < MaxSteps
    /\ \E a \in ExperimentArgs :
          call' = [NoCall EXCEPT !.op = a.op, !.key = a.key,
                                 !.user = <<ExperimentUser>>,
                                 !.nilParams = a.nilParams,
                                 !.details = a.details,
                                 !.userAfter = <<ExperimentUser>>]
    /\ IF initiated
          THEN /\ main' = "reading"
               /\ snap' = featuresCache
               /\ raced' = (refresher.pc = "assign")
          ELSE UNCHANGED <<main, snap, raced>>
    /\ calls' = calls + 1
    /\ UNCHANGED decoded
    /\ UNCHANGED <<apiKey, polling, autoSendEvents, initErr, featuresCache,
                   initiated, etag, isStreamConnected, subscribed,
                   tickerStopped, tickBuffered, refresher, lastResp, requests,
                   uploads, stopped, ticks, events>>
    /\ UNCHANGED evalVars

\* the rest of ExperimentStarted and ExperimentSuccess: the feature read
\* without an ok test is evaluated, the details are written into the Params
\* map of the user passed, which is the caller's map (a write to a nil map
\* panics), and the event is uploaded
ExperimentEnd ==
    /\ main = "reading"
    /\ call.op \in ExperimentOps
    /\ \E l \in ReadOutcomes :
          LET user == call.user[1]
              result == isActive(l.f, <<user>>)
              panics == call.nilParams /\ DOMAIN call.details # {}
              params == mergeDetails(user.Params, call.details)
              name == eventName(call.op)
          IN
          /\ main' = IF panics THEN "panicked" ELSE "ready"
          /\ uploads' =
                IF panics THEN uploads
                ELSE uploadEvent(uploads,
                                 experimentEvent(name, call.key, user, params,
                                                 l.f, result))
          /\ call' = [call EXCEPT !.result = result, !.entries = ReadOutcomes,
                                  !.userAfter =
                                      IF panics THEN @
                                      ELSE <<[user EXCEPT !.Params = params]>>,
                                  !.emitted = Len(uploads') - Len(uploads)]
    /\ UNCHANGED decoded
    /\ UNCHANGED <<apiKey, polling, autoSendEvents, initErr, featuresCache,
                   initiated, etag, isStreamConnected, subscribed,
                   tickerStopped, tickBuffered, refresher, lastResp, requests,
                   snap, raced, stopped, ticks, events, calls>>
    /\ UNCHANGED evalVars

\* the goroutine of uploadEvent: httpClient.Do returns, with or without
\* error; nothing reads the outcome, and the uploads end in the order they
\* began
UploadDone ==
    /\ Running
    /\ \E i \in 1..Len(uploads), ok \in BOOLEAN :
          /\ uploads[i].state = "inflight"
          /\ \A j \in 1..(i - 1) : uploads[j].state # "inflight"
          /\ uploads' = [uploads EXCEPT ![i].state = IF ok THEN "sent" ELSE "failed"]
    /\ UNCHANGED decoded
    /\ UNCHANGED <<main, apiKey, polling, autoSendEvents, initErr,
                   featuresCache, initiated, etag, isStreamConnected,
                   subscribed, tickerStopped, tickBuffered, refresher,
                   lastResp, requests, call, snap, raced, stopped, ticks,
                   events, calls>>
    /\ UNCHANGED evalVars

\* Stop()
ClientStop ==
    /\ main = "ready"
    /\ ticks + events + calls < MaxSteps
    /\ subscribed' = FALSE
    /\ tickerStopped' = TRUE
    /\ initiated' = FALSE
    /\ stopped' = TRUE
    /\ call' = [NoCall EXCEPT !.op = "Stop"]
    /\ calls' = calls + 1
    /\ UNCHANGED decoded
    /\ UNCHANGED <<main, apiKey, polling, autoSendEvents, initErr,
                   featuresCache, etag, isStreamConnected, tickBuffered,
                   refresher, lastResp, requests, uploads, snap, raced, ticks,
                   events>>
    /\ UNCHANGED evalVars

\* IsInitiated()
ClientIsInitiated ==
    /\ main = "ready"
    /\ ticks + events + calls < MaxSteps
    /\ call' = [NoCall EXCEPT !.op = "IsInitiated", !.result = initiated]
    /\ calls' = calls + 1
    /\ UNCHANGED decoded
    /\ UNCHANGED <<main, apiKey, polling, autoSendEvents, initErr,
                   featuresCache, initiated, etag, isStreamConnected,
                   subscribed, tickerStopped, tickBuffered, refresher,
                   lastResp, requests, uploads, snap, raced, stopped, ticks,
                   events>>
    /\ UNCHANGED evalVars

\* no evaluator call is in progress and no client exists yet
InitClient ==
    /\ feature = [Active |-> FALSE, Segments |-> <<>>]
    /\ userArg = <<>>
    /\ fn = "none"
    /\ seg = ZeroSegment
    /\ ret = FALSE
    /\ constraintsMet = 0
    /\ counted = {}
    /\ earlier = {}
    /\ NoClient

NextClient ==
    \/ ClientInit
    \/ Tick
    \/ RefreshTick
    \/ FetchRespond
    \/ StreamEvent
    \/ WriteBegin
    \/ WriteEnd
    \/ LoopExit
    \/ StreamDisconnect
    \/ IsActiveBegin
    \/ IsActiveEnd
    \/ IsActiveFatal
    \/ ExperimentBegin
    \/ ExperimentEnd
    \/ UploadDone
    \/ ClientStop
    \/ ClientIsInitiated

SpecClient == InitClient /\ [][NextClient]_vars

\* ----------------------------------------------------------------- claims
Max(S) == CHOOSE x \in S : \A y \in S : y <= x

\* the segment of type t that counts: the last one of that type in list
\* order, as a sequence of length 0 or 1
LastOfType(segments, t) ==
    LET I == {i \in 1..Len(segments) : segments[i].SegmentType = t} IN
    IF I = {} THEN <<>> ELSE <<segments[Max(I)]>>

HasSegment(t) == Len(LastOfType(feature.Segments, t)) = 1

\* the user passed is in the feature's segment of type t
UserInSegmentOfType(t) ==
    /\ userArg # <<>>
    /\ HasSegment(t)
    /\ isUserInSegment(userArg[1], LastOfType(feature.Segments, t)[1])

\* the percentage of the everyoneElse segment, 0 when there is none
EveryoneElsePercentage ==
    IF HasSegment(everyoneElse)
        THEN LastOfType(feature.Segments, everyoneElse)[1].Percentage
        ELSE 0

Returned(name) == fn = name

\* C1: a feature with active = false is inactive for every user, the absent
\* user included, whatever its segments are.
C1_InactiveFeatureIsNeverActive ==
    (Returned("isActive") /\ ~feature.Active) => ret = FALSE

C1_Witness ==
    /\ Returned("isActive")
    /\ ~feature.Active
    /\ UserInSegmentOfType(alwaysExperiment)
    /\ ~HasSegment(alwaysControl)
    /\ EveryoneElsePercentage = 100
    /\ ret = FALSE

\* C2: an active feature evaluated with no user is active, whatever its
\* segments are.
C2_ActiveFeatureWithoutUserIsActive ==
    (Returned("isActive") /\ feature.Active /\ userArg = <<>>) => ret = TRUE

C2_Witness ==
    /\ Returned("isActive")
    /\ feature.Active
    /\ userArg = <<>>
    /\ HasSegment(alwaysControl)
    /\ LastOfType(feature.Segments, alwaysControl)[1].UserConstraints = <<>>
    /\ HasSegment(everyoneElse)
    /\ EveryoneElsePercentage = 0
    /\ ret = TRUE

\* C3: for an active feature and a present user, a user in the alwaysControl
\* segment gets false, also when the user is in alwaysExperiment and
\* everyoneElse is at 100.
C3_AlwaysControlPrecedence ==
    (Returned("isActive") /\ feature.Active /\ UserInSegmentOfType(alwaysControl))
        => ret = FALSE

C3_Witness ==
    /\ Returned("isActive")
    /\ feature.Active
    /\ UserInSegmentOfType(alwaysControl)
    /\ UserInSegmentOfType(alwaysExperiment)
    /\ EveryoneElsePercentage = 100
    /\ ret = FALSE

\* C4: for an active feature and a present user who is not in alwaysControl,
\* a user in the alwaysExperiment segment gets true whatever the everyoneElse
\* percentage is, also with no everyoneElse segment.
C4_AlwaysExperimentIsActive ==
    (/\ Returned("isActive")
     /\ feature.Active
     /\ ~UserInSegmentOfType(alwaysControl)
     /\ UserInSegmentOfType(alwaysExperiment))
        => ret = TRUE

C4_Witness ==
    /\ Returned("isActive")
    /\ feature.Active
    /\ HasSegment(alwaysControl)
    /\ ~UserInSegmentOfType(alwaysControl)
    /\ UserInSegmentOfType(alwaysExperiment)
    /\ HasSegment(everyoneElse)
    /\ EveryoneElsePercentage = 0
    /\ ret = TRUE

\* C5: for an active feature and a present user in neither alwaysControl nor
\* alwaysExperiment, isActive is the percentage test of the user's id against
\* the everyoneElse percentage; without an everyoneElse segment the
\* percentage is 0 and the result false.
C5_EveryoneElseDecidesByPercentage ==
    (/\ Returned("isActive")
     /\ feature.Active
     /\ userArg # <<>>
     /\ ~UserInSegmentOfType(alwaysControl)
     /\ ~UserInSegmentOfType(alwaysExperiment))
        => /\ ret = getUserPercentage(userArg[1],
                        [ZeroSegment EXCEPT !.Percentage = EveryoneElsePercentage])
           /\ ~HasSegment(everyoneElse) => ret = FALSE

C5_Witness ==
    /\ Returned("isActive")
    /\ feature.Active
    /\ userArg # <<>>
    /\ HasSegment(alwaysControl)
    /\ ~UserInSegmentOfType(alwaysControl)
    /\ HasSegment(alwaysExperiment)
    /\ ~UserInSegmentOfType(alwaysExperiment)
    /\ ~HasSegment(everyoneElse)
    /\ ret = FALSE

\* C6: the percentage test is true for every user id at percentage 100 and
\* false for every user id at percentage 0.
C6_PercentageBoundaries ==
    Returned("getUserPercentage")
        => /\ seg.Percentage = 100 => ret = TRUE
           /\ seg.Percentage = 0 => ret = FALSE

\* the id whose bucket is 0, at percentage 0
C6_Witness ==
    /\ Returned("getUserPercentage")
    /\ userArg[1].ID = <<>>
    /\ userBucket(userArg[1].ID) = 0
    /\ seg.Percentage = 0
    /\ ret = FALSE

\* C7: monotonicity: a user id that passes the percentage test at a
\* percentage passes it at every larger percentage, across the fast path of
\* 100 as well.
C7_PercentageMonotonicity ==
    (Returned("getUserPercentage") /\ ret = TRUE)
        => \A b \in (seg.Percentage + 1)..(MaxPercentage + 1) :
              getUserPercentage(userArg[1], [seg EXCEPT !.Percentage = b])

\* a hashed comparison that passes below the fast path
C7_Witness ==
    /\ Returned("getUserPercentage")
    /\ ret = TRUE
    /\ seg.Percentage < 100
    /\ seg.Percentage > 0
    /\ userBucket(userArg[1].ID) > 0

\* the parameter of constraint c is missing for the user: not in Params and
\* not the literal "id"
ParamMissing(c) ==
    c.UserParam \notin DOMAIN userArg[1].Params /\ c.UserParam # "id"

\* C8: a constraint whose parameter is missing is never counted as met,
\* for every operator and parameter type.
C8_MissingParamNeverMet ==
    Returned("isUserInSegment")
        => \A i \in 1..Len(seg.UserConstraints) :
              ParamMissing(seg.UserConstraints[i]) => i \notin counted

C8_Witness ==
    /\ Returned("isUserInSegment")
    /\ \E i \in 1..Len(seg.UserConstraints) :
          /\ ParamMissing(seg.UserConstraints[i])
          /\ seg.UserConstraints[i].Operator \in {nin, doesNotEqual, doesNotContain}
          /\ i \notin counted
    /\ counted # {}

\* constraint c read as an ordinary constraint on a present string parameter
\* that holds the user's ID
MetOnIDField(c) ==
    constraintMet([ID |-> userArg[1].ID,
                   Params |-> [k \in {"idField"} |-> StrV(userArg[1].ID)]],
                  [c EXCEPT !.UserParam = "idField"])

\* C9: a constraint on "id" is evaluated against the ID field, which counts
\* as present; Params may be empty or hold another value under "id".
C9_IdConstraintReadsIDField ==
    Returned("isUserInSegment")
        => \A i \in 1..Len(seg.UserConstraints) :
              seg.UserConstraints[i].UserParam = "id"
                  => (i \in counted <=> MetOnIDField(seg.UserConstraints[i]))

C9_Witness ==
    /\ Returned("isUserInSegment")
    /\ "id" \in DOMAIN userArg[1].Params
    /\ userArg[1].Params["id"] # StrV(userArg[1].ID)
    /\ \E i \in 1..Len(seg.UserConstraints) :
          /\ seg.UserConstraints[i].UserParam = "id"
          /\ seg.UserConstraints[i].Operator = equals
          /\ i \in counted

\* the constraints of the segment called that are met
MetConstraints ==
    {i \in 1..Len(seg.UserConstraints) : constraintMet(userArg[1], seg.UserConstraints[i])}

Required == IF seg.Constraint = "any" THEN 1 ELSE Len(seg.UserConstraints)

\* C10: isUserInSegment is true iff the number of constraints met reaches
\* the number required: all of them, or 1 under "any"; with no constraints
\* the segment matches every user under "all" and no user under "any".
C10_SegmentMatchesIffEnoughMet ==
    Returned("isUserInSegment")
        => /\ ret = (Cardinality(MetConstraints) >= Required)
           /\ constraintsMet = Cardinality(MetConstraints)
           /\ seg.UserConstraints = <<>> => ret = (seg.Constraint # "any")

C10_Witness ==
    /\ Returned("isUserInSegment")
    /\ seg.Constraint = "any"
    /\ Len(seg.UserConstraints) = 2
    /\ Cardinality(MetConstraints) = 1
    /\ ret = TRUE

\* the attribute constraint c names exists for the user: the literal "id",
\* or a key of Params
ParamPresent(c) ==
    c.UserParam = "id" \/ c.UserParam \in DOMAIN userArg[1].Params

\* the value constraint c is evaluated against, as the caller supplied it
UserValue(c) ==
    IF c.UserParam = "id" THEN StrV(userArg[1].ID)
    ELSE userArg[1].Params[c.UserParam]

StringTyped(c) == c.UserParamType \notin {"number", "bool"}

\* C11: for a string-typed constraint whose attribute exists, "in" is met
\* iff the user's value is one of the elements of values split on ",", and
\* "nin" is met iff "in" on the same values is not met.
C11_InIsMembershipNinItsNegation ==
    Returned("isUserInSegment")
        => \A i \in 1..Len(seg.UserConstraints) :
              LET c == seg.UserConstraints[i] IN
              (StringTyped(c) /\ ParamPresent(c))
                  => /\ (c.Operator = in /\ UserValue(c).kind = "string")
                            => (i \in counted
                                  <=> UserValue(c).val \in Range(Split(c.Values, ChComma)))
                     /\ c.Operator = nin
                            => (i \in counted
                                  <=> ~constraintMet(userArg[1], [c EXCEPT !.Operator = in]))

\* the number a numeric user value stands for, in units of 1/Scale
NumberOf(value) ==
    CASE value.kind \in {"int", "uint"} -> value.val * Scale
      [] value.kind = "float64"         -> value.val
      [] value.kind = "string"          -> ParseFloat(value.val).v

IsNumber(value) ==
    \/ value.kind \in {"int", "uint", "float64"}
    \/ value.kind = "string" /\ ~ParseFloat(value.val).err

\* the boolean a user value stands for under the "bool" parameter type:
\* a boolean itself, a "true"/"false" string parsed, a number non-zero
BoolOf(value) ==
    CASE value.kind = "bool"   -> value.val
      [] value.kind = "string" -> ParseBool(value.val).v
      [] OTHER                 -> value.val # 0

IsBoolLike(value) ==
    \/ value.kind \in {"bool", "int", "uint", "float64"}
    \/ value.kind = "string" /\ ~ParseBool(value.val).err

\* C12: under userParamType "bool" a boolean, a "true"/"false" string or a
\* number is accepted as the user's value; a number counts as true when it
\* is non-zero, whatever its sign and kind, and as false when it is zero.
C12_BoolCoercionOfNumbers ==
    Returned("isUserInSegment")
        => \A i \in 1..Len(seg.UserConstraints) :
              LET c == seg.UserConstraints[i] IN
              (/\ c.UserParamType = "bool"
               /\ ParamPresent(c)
               /\ IsBoolLike(UserValue(c))
               /\ ~ParseBool(c.Values).err
               /\ c.Operator \in {equals, doesNotEqual})
                  => (i \in counted
                        <=> ((BoolOf(UserValue(c)) = ParseBool(c.Values).v)
                                <=> c.Operator = equals))

\* the comparison a number operator stands for
Compare(op, a, b) ==
    CASE op = equals       -> a = b
      [] op = doesNotEqual -> a # b
      [] op = gt           -> a > b
      [] op = gte          -> a >= b
      [] op = lt           -> a < b
      [] op = lte          -> a <= b

\* C13: under userParamType "number" an int, a uint, a float or a numeric
\* string is coerced and compared under the six number operators; none of
\* these kinds makes the constraint be skipped.
C13_NumberCoercionOfEveryKind ==
    Returned("isUserInSegment")
        => \A i \in 1..Len(seg.UserConstraints) :
              LET c == seg.UserConstraints[i] IN
              (/\ c.UserParamType = "number"
               /\ ParamPresent(c)
               /\ IsNumber(UserValue(c))
               /\ ~ParseFloat(c.Values).err
               /\ c.Operator \in {equals, doesNotEqual, gt, gte, lt, lte})
                  => (i \in counted
                        <=> Compare(c.Operator, NumberOf(UserValue(c)),
                                    ParseFloat(c.Values).v))


KnownOperators ==
    {in, nin, equals, doesNotEqual, contains, doesNotContain, gt, gte, lt, lte}

\* the operator of c is unknown or not defined for the declared type, or
\* the values of c do not parse as the declared type
NotEvaluable(c) ==
    \/ c.Operator \notin KnownOperators
    \/ /\ c.UserParamType = "number"
       /\ \/ c.Operator \notin {equals, doesNotEqual, gt, gte, lt, lte}
          \/ ParseFloat(c.Values).err
    \/ /\ c.UserParamType = "bool"
       /\ \/ c.Operator \notin {equals, doesNotEqual}
          \/ ParseBool(c.Values).err
    \/ /\ StringTyped(c)
       /\ c.Operator \notin {in, nin, equals, doesNotEqual, contains, doesNotContain}

\* C25: a constraint whose operator is unknown or not defined for its
\* type, or whose values do not parse as its type, is never counted as
\* met, and the evaluation returns a boolean.
C25_NotEvaluableNeverMet ==
    Returned("isUserInSegment")
        => /\ ret \in BOOLEAN
           /\ \A i \in 1..Len(seg.UserConstraints) :
                 NotEvaluable(seg.UserConstraints[i]) => i \notin counted

\* an unknown operator, an operator of another type and values that do
\* not parse, each on a parameter the user has
C25_Witness ==
    /\ Returned("isUserInSegment")
    /\ Len(seg.UserConstraints) = 1
    /\ ParamPresent(seg.UserConstraints[1])
    /\ UserValue(seg.UserConstraints[1]).kind = "string"
    /\ seg.UserConstraints[1].Operator = "regex"
    /\ StringTyped(seg.UserConstraints[1])
    /\ ret = FALSE

\* C26: a constraint whose user value cannot be coerced to the declared
\* type is not counted as met, and the other constraints are evaluated as
\* they are on their own: under "any" one of them met makes the segment
\* match, under "all" the segment does not match.
C26_CoercionFailureSkipsOneConstraint ==
    Returned("isUserInSegment")
        => \A i \in 1..Len(seg.UserConstraints) :
              coercionFails(userArg[1], seg.UserConstraints[i])
                  => /\ i \notin counted
                     /\ \A j \in 1..Len(seg.UserConstraints) :
                           j # i => (j \in counted
                                       <=> constraintMet(userArg[1], seg.UserConstraints[j]))
                     /\ seg.Constraint = any
                           => (ret <=> \E j \in 1..Len(seg.UserConstraints) :
                                          constraintMet(userArg[1], seg.UserConstraints[j]))
                     /\ seg.Constraint # any => ret = FALSE

\* under "any" the first constraint fails to coerce a value that is there
\* and the second is met
C26_Witness ==
    /\ Returned("isUserInSegment")
    /\ seg.Constraint = any
    /\ Len(seg.UserConstraints) = 2
    /\ ParamPresent(seg.UserConstraints[1])
    /\ coercionFails(userArg[1], seg.UserConstraints[1])
    /\ counted = {2}
    /\ ret = TRUE

KnownTypes == {alwaysControl, alwaysExperiment, everyoneElse}

\* the indices of the segments that are the last of a known type
LastIndices(segments) ==
    {i \in 1..Len(segments) :
        /\ segments[i].SegmentType \in KnownTypes
        /\ \A j \in (i + 1)..Len(segments) :
              segments[j].SegmentType # segments[i].SegmentType}

RECURSIVE Pick(_, _, _)
\* the subsequence of segments at the indices I, from index i on
Pick(segments, I, i) ==
    IF i > Len(segments) THEN <<>>
    ELSE IF i \in I THEN <<segments[i]>> \o Pick(segments, I, i + 1)
    ELSE Pick(segments, I, i + 1)

\* C27: the result is that of the feature with only the last segment of
\* each known type kept: earlier segments of the same type and segments of
\* any other type have no effect.
C27_LastSegmentOfTypeCounts ==
    Returned("isActive")
        => ret = isActive([feature EXCEPT
                              !.Segments = Pick(@, LastIndices(feature.Segments), 1)],
                          userArg)

\* an everyoneElse segment of 0 percent, a segment of unknown type with
\* 100 percent, then an everyoneElse segment of 100 percent
C27_Witness ==
    /\ Returned("isActive")
    /\ userArg # <<>>
    /\ Len(feature.Segments) = 3
    /\ feature.Segments[1].SegmentType = everyoneElse
    /\ feature.Segments[1].Percentage = 0
    /\ feature.Segments[2].SegmentType \notin KnownTypes
    /\ feature.Segments[3].SegmentType = everyoneElse
    /\ feature.Segments[3].Percentage = 100
    /\ ret = TRUE

\* the feature with the constraints and the mode of its everyoneElse
\* segments replaced
WithEveryoneElse(f, cs, mode) ==
    [f EXCEPT !.Segments =
        [i \in 1..Len(f.Segments) |->
            IF f.Segments[i].SegmentType = everyoneElse
                THEN [f.Segments[i] EXCEPT !.UserConstraints = cs, !.Constraint = mode]
                ELSE f.Segments[i]]]

\* C28: the result does not change when the constraints and the mode of
\* the everyoneElse segments change; for a user in neither alwaysControl
\* nor alwaysExperiment it is decided by the id and the percentage.
C28_EveryoneElseConstraintsIgnored ==
    Returned("isActive")
        => \A cs \in {<<>>, <<c_control>>, <<c_experiment>>}, mode \in {"all", any} :
              ret = isActive(WithEveryoneElse(feature, cs, mode), userArg)

\* a user who does not meet the constraint of the everyoneElse segment is
\* active by its percentage
C28_Witness ==
    /\ Returned("isActive")
    /\ userArg # <<>>
    /\ HasSegment(everyoneElse)
    /\ LastOfType(feature.Segments, everyoneElse)[1].UserConstraints # <<>>
    /\ ~isUserInSegment(userArg[1], LastOfType(feature.Segments, everyoneElse)[1])
    /\ ~UserInSegmentOfType(alwaysControl)
    /\ ret = TRUE

\* ------------------------------------------------------ claims, the client
\* IsActive has returned to the caller, who has made no call since
IsActiveReturned == call.op = "IsActive" /\ main = "ready"

\* the key of the last IsActive was in the cache at no moment of its read
KeyAbsent ==
    /\ call.key \notin DOMAIN snap
    /\ \A e \in call.entries : ~e.ok

\* C14: IsActive returns false for a key that is not in the cache, with
\* and without a user, also on a client whose first fetch failed.
C14_UnknownKeyIsInactive ==
    (IsActiveReturned /\ KeyAbsent) => call.result = FALSE

\* a client whose first fetch failed is asked, with a user, for a key the
\* server does serve
C14_Witness ==
    /\ IsActiveReturned
    /\ KeyAbsent
    /\ call.key = "A"
    /\ call.user # <<>>
    /\ polling
    /\ requests = 1
    /\ lastResp = RespError
    /\ call.result = FALSE

\* C15: Init with an empty APIKey returns an error, and has then sent no
\* fetch, made no subscription and started no refresh goroutine.
C15_EmptyAPIKeyStartsNothing ==
    (main # "start" /\ apiKey = "")
        => /\ initErr = ErrAPIKey
           /\ main = "failed"
           /\ requests = 0
           /\ lastResp = NoResp
           /\ ~subscribed
           /\ refresher.pc = "none"

\* the options asked for polling, which fetches when the key is there
C15_Witness ==
    /\ main = "failed"
    /\ apiKey = ""
    /\ polling
    /\ initErr = ErrAPIKey
    /\ requests = 0

\* C16: no read of the cache by a caller overlaps a write of the cache by
\* the refresh goroutine.
C16_NoReadOverlapsWrite ==
    ~(main = "reading" /\ refresher.pc = "assign")

\* C17: what IsActive returns is isActive of the cache's entry for the key
\* and the user: the entry the map held throughout an undisturbed read,
\* one of the entries a disturbed read may yield; whatever autoSendEvents
\* is and whatever becomes of the uploads.
C17_ResultIsEvaluationOfCacheEntry ==
    IsActiveReturned
        => IF raced
              THEN call.result \in {isActive(e.f, call.user) : e \in call.entries}
              ELSE call.result = isActive(cacheLookup(snap, call.key).f, call.user)

\* IsActive has returned true for a user while its upload is in flight,
\* after an earlier upload failed
C17_Witness ==
    /\ IsActiveReturned
    /\ autoSendEvents
    /\ call.user # <<>>
    /\ call.result = TRUE
    /\ Len(uploads) = 2
    /\ uploads[1].state = "failed"
    /\ uploads[2].state = "inflight"
    /\ uploads[2].e.FeatureName = call.key

\* the HTTP client returned an error, or the server answered 304
FetchFailed(resp) ==
    resp.kind = "error" \/ (resp.kind = "response" /\ resp.status = StatusNotModified)

\* C18: a fetch that fails at transport level or is answered 304 ends
\* there and leaves featuresCache, etag and initiated as they were, in the
\* refresh goroutine and in Init, where they are still empty.
C18_FailedFetchChangesNothing ==
    [][ /\ (refresher.pc = "fetching" /\ refresher'.pc # "fetching" /\ FetchFailed(lastResp'))
            => /\ UNCHANGED <<featuresCache, etag, initiated>>
               /\ refresher'.pc = "select"
        /\ (main = "start" /\ requests' = 1 /\ FetchFailed(lastResp'))
            => /\ featuresCache' = <<>>
               /\ etag' = ""
               /\ initiated' = FALSE
      ]_vars

\* a refresh answered 304 after a first fetch that filled the cache
C18_Witness ==
    /\ requests = 2
    /\ lastResp.kind = "response"
    /\ lastResp.status = StatusNotModified
    /\ refresher.pc = "select"
    /\ DOMAIN featuresCache = {"A", "B"}
    /\ etag = "v2"
    /\ initiated
    /\ ~stopped

\* C19: once Stop has returned, IsInitiated returns false.
C19_StoppedStaysUninitiated ==
    (stopped /\ call.op = "IsInitiated") => call.result = FALSE

\* Init has returned and nothing has happened since
AtInitReturn == call.op = "Init" /\ main # "start" /\ ticks = 0 /\ events = 0

\* the cache holds every feature of the list
HoldsAll(features) ==
    \A i \in 1..Len(features) :
        /\ features[i].Key \in DOMAIN featuresCache
        /\ featuresCache[features[i].Key] = features[i]

\* C20 as stated: in polling mode Init with an API key returns no error;
\* when it returns, a first fetch that got a response has set initiated and
\* filled the cache, and one that got an error has left both empty.
C20_InitAfterAnyResponse ==
    (main # "start" /\ apiKey # "" /\ polling)
        => /\ initErr = ""
           /\ AtInitReturn
                => /\ lastResp.kind = "response"
                        => (initiated /\ HoldsAll(lastResp.features))
                   /\ lastResp.kind = "error"
                        => (~initiated /\ featuresCache = <<>>)

\* C20: in polling mode Init with an API key returns no error; when it
\* returns, a first fetch that got a response other than 304 has set
\* initiated and filled the cache, and one that got an error or a 304 has
\* left both empty.
C20_InitAfterResponseOtherThan304 ==
    (main # "start" /\ apiKey # "" /\ polling)
        => /\ initErr = ""
           /\ AtInitReturn
                => /\ (lastResp.kind = "response" /\ lastResp.status # StatusNotModified)
                        => (initiated /\ HoldsAll(lastResp.features))
                   /\ FetchFailed(lastResp)
                        => (~initiated /\ featuresCache = <<>>)

\* Init has returned with the two features of the first response cached
C20_Witness ==
    /\ AtInitReturn
    /\ polling
    /\ initErr = ""
    /\ lastResp.kind = "response"
    /\ Len(lastResp.features) = 2
    /\ initiated
    /\ DOMAIN featuresCache = {"A", "B"}

\* the calls that evaluate a feature
EvaluatingOps == {"IsActive"} \cup ExperimentOps

\* the last call evaluated a feature, has returned and handed one event to
\* an upload goroutine: the last of uploads
CallEmitted == call.op \in EvaluatingOps /\ main = "ready" /\ call.emitted = 1

LastEvent == uploads[Len(uploads)].e

\* C22: the testType an event carries is "experiment" when isActive returned
\* true for the call and "control" when it returned false, in IsActive,
\* ExperimentStarted and ExperimentSuccess alike.
C22_LabelFollowsResult ==
    CallEmitted
        => LastEvent.TestType = (IF call.result THEN "experiment" ELSE "control")

\* a step of the caller inside IsActive, ExperimentStarted or
\* ExperimentSuccess
EvaluatingStep ==
    /\ call'.op \in EvaluatingOps
    /\ calls' # calls \/ main' # main

\* C23: a call of IsActive, ExperimentStarted or ExperimentSuccess modifies
\* neither the cached features nor the User value the caller passed: its id
\* and the contents of its Params map are after the call what they were.
C23_EvaluatingLeavesInputsAlone ==
    [][EvaluatingStep
          => /\ featuresCache' = featuresCache
             /\ call'.userAfter = call'.user]_vars

\* the key of the last IsActive was in the cache at every moment of its read
KeyCached == \A e \in call.entries : e.ok

\* the dynamic types of the model that encoding/json encodes
JSONKinds == {"string", "bool", "int", "uint", "float64", "nil"}

\* json.Marshal has an encoding for every parameter of the user
Encodable(user) == \A k \in DOMAIN user.Params : user.Params[k].kind \in JSONKinds

\* the event of the last call is an experiment_started for the first user
\* passed and the feature read
StartedEventOfCall ==
    /\ LastEvent.Event = "experiment_started"
    /\ LastEvent.UserID = call.user[1].ID
    /\ LastEvent.FeatureID \in {e.f.ID : e \in call.entries}
    /\ LastEvent.FeatureName = call.key

\* C24, as stated: IsActive hands exactly one experiment_started event to
\* the uploader when AutoSendEvents is set, a user was passed and the key is
\* in the cache, and none otherwise.
C24_EventIffAutoUserAndCachedKey ==
    IsActiveReturned
        => /\ (autoSendEvents /\ call.user # <<>> /\ KeyCached)
                => (call.emitted = 1 /\ StartedEventOfCall)
           /\ (~autoSendEvents \/ call.user = <<>> \/ KeyAbsent)
                => call.emitted = 0

\* C24: IsActive hands exactly one experiment_started event, with the first
\* user's id and the feature's id, to the uploader when AutoSendEvents is
\* set, a user was passed, the key is in the cache and the user's parameters
\* encode as JSON; without one of the four it hands over none.
C24_EventIffAutoUserCachedKeyAndEncodable ==
    IsActiveReturned
        => /\ (autoSendEvents /\ call.user # <<>> /\ KeyCached
                    /\ Encodable(call.user[1]))
                => (call.emitted = 1 /\ StartedEventOfCall)
           /\ (\/ ~autoSendEvents
               \/ call.user = <<>>
               \/ KeyAbsent
               \/ (call.user # <<>> /\ ~Encodable(call.user[1])))
                => call.emitted = 0

\* IsActive has handed over the event of a user for a cached key, after a
\* call for a user whose parameters do not encode handed over none
C24_Witness ==
    /\ IsActiveReturned
    /\ autoSendEvents
    /\ call.user # <<>>
    /\ KeyCached
    /\ Encodable(call.user[1])
    /\ call.emitted = 1
    /\ calls = 2
    /\ Len(uploads) = 1
    /\ LastEvent.FeatureID = "f1"

\* C29: the keys of the cache never get fewer, and an entry changes only
\* when the refresh stores the feature of that key from the payload it
\* applies; the entry of a key absent from that payload stays as it was.
C29_CacheOnlyGrows ==
    [][/\ DOMAIN featuresCache \subseteq DOMAIN featuresCache'
       /\ \A k \in DOMAIN featuresCache :
             featuresCache'[k] # featuresCache[k]
                 => /\ refresher.pc = "assign"
                    /\ Head(refresher.pending).Key = k
                    /\ featuresCache'[k] = Head(refresher.pending)]_vars

\* after the payload with A and B a payload with A alone was applied; B is
\* still cached and IsActive has evaluated it
C29_Witness ==
    /\ etag = "v1"
    /\ lastResp.features = <<f_A1>>
    /\ DOMAIN featuresCache = {"A", "B"}
    /\ featuresCache["A"] = f_A1
    /\ featuresCache["B"] = f_B
    /\ IsActiveReturned
    /\ ~raced
    /\ call.key = "B"
    /\ call.result = isActive(f_B, call.user)

\* C30: whenever the client is initiated, a payload has been decoded
\* without error; a response or stream event that does not decode, or that
\* has an HTTP error status, does not set initiated.
C30_InitiatedOnlyAfterDecodedPayload == initiated => decoded
====
